---- MODULE Spec2Model ----
(***************************************************************************)
(* Model of cc-switch's conversation catalog (src-tauri/src/conversation.rs)*)
(* and Codex rule store (src-tauri/src/global_rules.rs).                    *)
(*                                                                          *)
(* A path is a sequence of components; a component is the tuple of the      *)
(* dot-separated parts of its name ("a.md" is <<"a","md">>, "projects" is   *)
(* <<"projects">>), so that file_name(), extension() and ends_with() are    *)
(* computed rather than assumed.  The empty path <<>> is "/".               *)
(***************************************************************************)
EXTENDS Naturals, Integers, Sequences, FiniteSets, TLC

VARIABLES
    dirs,        \* conversation tree: the directories
    files,       \* conversation tree: the record files
    unreadable,  \* directories fs::read_dir fails on
    readonly,    \* directories whose entries cannot be removed
    convCall,    \* the last conversation.rs call and its result
    ruleDir,     \* whether the Codex rules directory exists
    ruleFiles,   \* the files of the rules directory: name -> content
    cfg,         \* the Codex config.toml
    ruleCall,    \* the last global_rules.rs call and its result
    fileInfo,    \* what a scan reads of the record files: times and content
    scanCall,    \* the last scan or search and its result
    writers      \* write_codex_rule calls in progress in separate processes

convVars == <<dirs, files, unreadable, readonly, convCall>>

ruleVars == <<ruleDir, ruleFiles, cfg, ruleCall>>

scanVars == <<fileInfo, scanCall>>

raceVars == <<writers>>

vars ==
    <<dirs, files, unreadable, readonly, convCall, ruleDir, ruleFiles, cfg, ruleCall,
      fileInfo, scanCall, writers>>

(***************************************************************************)
(* Bounds                                                                   *)
(***************************************************************************)
\* largest number of record files in an initial tree
MaxInitFiles == 2
\* largest number of directories with a missing permission bit
MaxFaults == 1
\* longest tag list handed to write_codex_rule
MaxTags == 2
\* longest rules.global array of an initial config.toml
MaxInitEntries == 2
\* largest number of files in a tree that is scanned
MaxScanFiles == 2

(***************************************************************************)
(* std::path::Path                                                          *)
(***************************************************************************)
\* Option::None for a component
NoName == <<>>

\* Path::file_name: the last component, None for "/"
FileNameOf(p) == IF Len(p) = 0 THEN NoName ELSE p[Len(p)]

\* Path::parent for a path that has one
ParentOf(p) == SubSeq(p, 1, Len(p) - 1)

\* Path::parent().is_some()
HasParent(p) == Len(p) > 0

\* Path::join with a single normal component
Join(p, c) == Append(p, c)

\* Path::ends_with(name) for a one-component name
EndsWith(p, c) == Len(p) > 0 /\ p[Len(p)] = c

\* Path::extension: the part after the last dot, None when there is no dot
\* or when the only dot is the leading one
ExtensionOf(p) ==
    LET n == FileNameOf(p) IN
    IF Len(n) < 2 \/ (Len(n) = 2 /\ n[1] = "") THEN "" ELSE n[Len(n)]

IsPrefix(a, b) == Len(a) <= Len(b) /\ SubSeq(b, 1, Len(a)) = a

IsProperAncestor(a, b) == Len(a) < Len(b) /\ IsPrefix(a, b)

(***************************************************************************)
(* Directory layout                                                         *)
(***************************************************************************)
Home == << <<"home">> >>

\* get_claude_conversations_dir: ~/.claude/projects
ClaudeRoot == Join(Join(Home, <<"", "claude">>), <<"projects">>)

\* get_codex_conversations_dir: ~/.codex/sessions
CodexRoot == Join(Join(Home, <<"", "codex">>), <<"sessions">>)

Roots == {ClaudeRoot, CodexRoot}

\* directories that hold record files in the initial trees: the Claude root
\* itself, a project container, a directory two levels inside a container
\* below a directory named like a backend root, and two Codex day directories
LeafDirs ==
    { ClaudeRoot,
      Join(ClaudeRoot, <<"p1">>),
      Join(Join(Join(ClaudeRoot, <<"p1">>), <<"sessions">>), <<"s1">>),
      Join(Join(Join(CodexRoot, <<"2025">>), <<"01">>), <<"01">>),
      Join(Join(Join(CodexRoot, <<"2025">>), <<"01">>), <<"02">>) }

\* the record file names of a directory
RecordNames == { <<"f1", "jsonl">>, <<"f2", "jsonl">> }

CandFiles == { Join(d, n) : d \in LeafDirs, n \in RecordNames }

Ancestors(p) == { SubSeq(p, 1, k) : k \in 0..(Len(p) - 1) }

\* the directories of a tree that holds the record files F and both roots
TreeDirs(F) ==
    UNION { Ancestors(f) : f \in F } \cup UNION { Ancestors(r) \cup {r} : r \in Roots }

\* the paths handed to delete_conversation: record files, in the tree or
\* not, and a directory
DeleteInputs == CandFiles \cup {Join(ClaudeRoot, <<"p1">>)}

(***************************************************************************)
(* std::fs                                                                  *)
(***************************************************************************)
\* a listing that yields the record files only
Entries_files_only(D, F, d) == { x \in F : Len(x) = Len(d) + 1 /\ ParentOf(x) = d }

\* the entries fs::read_dir(d) yields in the tree (D, F)
Entries(D, F, d) == { x \in D \cup F : Len(x) = Len(d) + 1 /\ ParentOf(x) = d }

\* Path::exists
Exists(D, F, p) == p \in D \cup F

\* fs::read_dir(d).is_ok(): d is a directory that may be listed
ReadDirOk(D, d) == d \in D /\ d \notin unreadable

\* fs::remove_dir(d).is_ok() for an empty directory d: its parent may be
\* written, and d is not "/"
RemoveDirOk(d) == HasParent(d) /\ ParentOf(d) \notin readonly

\* fs::remove_file(p).is_ok() for an existing path p: p is not a directory
\* and its parent may be written
RemoveFileOk(F, p) == p \in F /\ ParentOf(p) \notin readonly

(***************************************************************************)
(* conversation.rs: delete_conversation                                     *)
(***************************************************************************)
\* a walk that removes the first empty directory and does not go on upwards
cleanup_without_recursion(D, F, dir) ==
    IF ReadDirOk(D, dir) /\ Cardinality(Entries(D, F, dir)) = 0 /\ RemoveDirOk(dir)
    THEN D \ {dir}
    ELSE D

RECURSIVE cleanup_empty_directories(_, _, _)

\* the directories left of D after the walk that starts at dir
cleanup_empty_directories(D, F, dir) ==
    IF ~ReadDirOk(D, dir) THEN D
    ELSE IF Cardinality(Entries(D, F, dir)) # 0 THEN D
    ELSE IF ~RemoveDirOk(dir) THEN D
    ELSE LET D1 == D \ {dir} IN
         IF ~HasParent(dir) THEN D1
         ELSE LET parent == ParentOf(dir) IN
              IF \/ EndsWith(parent, <<"sessions">>)
                 \/ EndsWith(parent, <<"projects">>)
                 \/ FileNameOf(parent) = NoName
              THEN D1
              ELSE cleanup_empty_directories(D1, F, parent)

\* delete_conversation without its check that the path exists
DeleteOutcome_unchecked(D, F, p) ==
    IF ~RemoveFileOk(F, p) THEN [result |-> "RemoveFailed", dirs |-> D, files |-> F]
    ELSE [result |-> "Ok",
          dirs   |-> cleanup_empty_directories(D, F \ {p}, ParentOf(p)),
          files  |-> F \ {p}]

\* the (result, dirs, files) of delete_conversation(p) in the tree (D, F)
DeleteOutcome(D, F, p) ==
    IF ~Exists(D, F, p) THEN [result |-> "NotFound", dirs |-> D, files |-> F]
    ELSE IF ~RemoveFileOk(F, p) THEN [result |-> "RemoveFailed", dirs |-> D, files |-> F]
    ELSE [result |-> "Ok",
          dirs   |-> IF HasParent(p)
                     THEN cleanup_empty_directories(D, F \ {p}, ParentOf(p))
                     ELSE D,
          files  |-> F \ {p}]

delete_conversation(p) ==
    LET out == DeleteOutcome(dirs, files, p) IN
    /\ dirs' = out.dirs
    /\ files' = out.files
    /\ unreadable' = unreadable \cap out.dirs
    /\ readonly' = readonly \cap out.dirs
    /\ convCall' = [op |-> "delete_conversation", path |-> p, result |-> out.result]
    /\ UNCHANGED <<ruleVars, scanVars, raceVars>>

NoCall == [op |-> "none", path |-> <<>>, result |-> "none"]

(***************************************************************************)
(* toml::Value and toml::Table.  A value is a tagged pair; a table is a     *)
(* function from keys to values.  A path stored in a document is a string   *)
(* value whose payload is the path.                                         *)
(***************************************************************************)
TStr(s) == <<"string", s>>
TInt(n) == <<"integer", n>>
TArr(a) == <<"array", a>>
TTab(t) == <<"table", t>>

\* Value::as_str / as_array / as_table give Some
IsStr(v) == v[1] = "string"
IsArr(v) == v[1] = "array"
IsTab(v) == v[1] = "table"

\* toml::Table::new()
EmptyTable == [k \in {} |-> k]

\* Table::get(k).is_some()
Has(t, k) == k \in DOMAIN t

\* Table::insert(k, v)
Put(t, k, v) == [x \in DOMAIN t \cup {k} |-> IF x = k THEN v ELSE t[x]]

(***************************************************************************)
(* The text of config.toml.  form says what the text is: "blank" (empty or  *)
(* white space), "invalid" (not TOML), "hand" (TOML as someone wrote it,    *)
(* with its own layout and comments) or "pretty" (TOML as to_string_pretty  *)
(* lays it out); doc is the table a parse of the text gives.                *)
(***************************************************************************)
BlankText == [form |-> "blank", doc |-> EmptyTable]

InvalidText == [form |-> "invalid", doc |-> EmptyTable]

\* config_text.trim().is_empty()
IsBlank(text) == text.form = "blank"

\* toml::from_str: the layout of the text is not part of the result
toml_from_str(text) ==
    IF text.form = "invalid"
    THEN [ok |-> FALSE, val |-> EmptyTable]
    ELSE [ok |-> TRUE, val |-> text.doc]

\* toml::to_string_pretty: an empty table gives the empty string
to_string_pretty(root) ==
    IF DOMAIN root = {} THEN BlankText ELSE [form |-> "pretty", doc |-> root]

\* crate::codex_config::read_codex_config_text: the text of the file, the
\* empty string when there is no file, an error when it cannot be read
read_codex_config_text(c) ==
    IF c.file = "unreadable" THEN [ok |-> FALSE, text |-> BlankText]
    ELSE IF c.file = "absent" THEN [ok |-> TRUE, text |-> BlankText]
    ELSE [ok |-> TRUE, text |-> c.text]

\* fs::write(config_path, new_config)
WriteConfig(text) == [file |-> "present", text |-> text]

(***************************************************************************)
(* global_rules.rs: names and paths                                         *)
(***************************************************************************)
\* crate::codex_config::get_codex_config_dir: ~/.codex
CodexConfigDir == Join(Home, <<"", "codex">>)

\* get_codex_rules_dir
RulesDir == Join(CodexConfigDir, <<"rules">>)

\* a rules directory of an earlier installation, found in stale config paths
StaleRulesDir == Join(Join(<<>>, <<"old">>), <<"rules">>)

RuleA == <<"a", "md">>
RuleB == <<"b", "md">>
NotesTxt == <<"n", "txt">>

\* the names a rules directory starts with
InitNames == {RuleA, RuleB, NotesTxt}

\* the file names handed to write_codex_rule and to delete_codex_rule
WriteNames == {RuleA}
DeleteNames == {RuleA, RuleB, NotesTxt}

TagNames == {"t1", "t2"}

\* the contents handed to write_codex_rule
Contents == {"c1"}

\* Vec<String> of at most n tags
TagLists(n) == UNION { [1..k -> TagNames] : k \in 0..n }

\* the (filename, tags) handed to write_codex_rule: a rule file name with
\* every tag list, and a file name without the extension md with one tag
WriteInputs == (WriteNames \X TagLists(MaxTags)) \cup {<<NotesTxt, <<"t1">>>>}

\* an entry's path has the file-name component name: the entry is a table,
\* its path a string, and Path::new(p).file_name() is that name
EntryMatches(item, name) ==
    /\ IsTab(item)
    /\ Has(item[2], "path")
    /\ IsStr(item[2]["path"])
    /\ FileNameOf(item[2]["path"][2]) = name

\* Iterator::position: the first index whose item satisfies the match, 0 for None
RECURSIVE PositionFrom(_, _, _)
PositionFrom(arr, name, i) ==
    IF i > Len(arr) THEN 0
    ELSE IF EntryMatches(arr[i], name) THEN i
    ELSE PositionFrom(arr, name, i + 1)

Position(arr, name) == PositionFrom(arr, name, 1)

(***************************************************************************)
(* global_rules.rs: read_codex_rules_config                                 *)
(***************************************************************************)
\* tags of a config item: the strings of its tags array, nothing otherwise
RECURSIVE StringsOf(_)
StringsOf(a) ==
    IF a = <<>> THEN <<>>
    ELSE IF IsStr(Head(a)) THEN <<Head(a)[2]>> \o StringsOf(Tail(a))
    ELSE StringsOf(Tail(a))

ItemTags(table) ==
    IF Has(table, "tags") /\ IsArr(table["tags"])
    THEN StringsOf(table["tags"][2])
    ELSE <<>>

\* an item of rules.global that read_codex_rules_config accepts
ItemOk(item) == IsTab(item) /\ Has(item[2], "path") /\ IsStr(item[2]["path"])

\* the Vec<CodexRuleConfig> of an array whose items are all accepted
ConfigRules(arr) ==
    [i \in 1..Len(arr) |-> [path |-> arr[i][2]["path"][2], tags |-> ItemTags(arr[i][2])]]

ReadErr == [ok |-> FALSE, rules |-> <<>>]

read_codex_rules_config(c) ==
    LET rd == read_codex_config_text(c) IN
    IF ~rd.ok THEN ReadErr
    ELSE IF IsBlank(rd.text) THEN [ok |-> TRUE, rules |-> <<>>]
    ELSE LET parsed == toml_from_str(rd.text) IN
    IF ~parsed.ok THEN ReadErr
    ELSE LET root == parsed.val IN
    IF ~(Has(root, "rules") /\ IsTab(root["rules"])) THEN ReadErr
    ELSE LET rules_table == root["rules"][2] IN
    IF ~(Has(rules_table, "global") /\ IsArr(rules_table["global"])) THEN ReadErr
    ELSE LET global_array == rules_table["global"][2] IN
    IF \E i \in 1..Len(global_array) : ~ItemOk(global_array[i]) THEN ReadErr
    ELSE [ok |-> TRUE, rules |-> ConfigRules(global_array)]

(***************************************************************************)
(* global_rules.rs: update_codex_rules_config                               *)
(***************************************************************************)
\* a parse for update that takes an unparseable document for an empty one
ParseForUpdate_lenient(text) ==
    IF IsBlank(text) \/ text.form = "invalid"
    THEN [ok |-> TRUE, val |-> EmptyTable]
    ELSE toml_from_str(text)

\* lines 214-219: the root table to update
ParseForUpdate(text) ==
    IF IsBlank(text) THEN [ok |-> TRUE, val |-> EmptyTable] ELSE toml_from_str(text)

\* a rule item that always carries a tags array
RuleTable_always_tags(path_str, tags) ==
    Put(Put(EmptyTable, "path", TStr(path_str)),
        "tags", TArr([i \in 1..Len(tags) |-> TStr(tags[i])]))

\* lines 249-257: the new rule item
RuleTable(path_str, tags) ==
    LET rule_table == Put(EmptyTable, "path", TStr(path_str)) IN
    IF tags # <<>>
    THEN Put(rule_table, "tags", TArr([i \in 1..Len(tags) |-> TStr(tags[i])]))
    ELSE rule_table

\* an upsert that never replaces
Upsert_always_push(global_array, existing_index, item) == Append(global_array, item)

\* lines 259-263: replace at the index found, or push
Upsert(global_array, existing_index, item) ==
    IF existing_index # 0
    THEN [global_array EXCEPT ![existing_index] = item]
    ELSE Append(global_array, item)

\* an update that writes back only the rules section
UpdatedRoot_rules_only(root, rules_table, new_array) ==
    Put(EmptyTable, "rules", TTab(Put(rules_table, "global", TArr(new_array))))

\* the root table after the update in place of rules.global
UpdatedRoot(root, rules_table, new_array) ==
    Put(root, "rules", TTab(Put(rules_table, "global", TArr(new_array))))

UpdateErr(c, e) == [result |-> e, cfg |-> c, index |-> 0]

\* the (result, cfg) of update_codex_rules_config(filename, tags) on config c
update_codex_rules_config(c, filename, tags) ==
    LET rd == read_codex_config_text(c) IN
    IF ~rd.ok THEN UpdateErr(c, "ReadError")
    ELSE LET parsed == ParseForUpdate(rd.text) IN
    IF ~parsed.ok THEN UpdateErr(c, "ParseError")
    ELSE LET root == parsed.val
             rules_value == IF Has(root, "rules") THEN root["rules"] ELSE TTab(EmptyTable)
    IN
    IF ~IsTab(rules_value) THEN UpdateErr(c, "RulesNotTable")
    ELSE LET rules_table == rules_value[2]
             global_value == IF Has(rules_table, "global")
                             THEN rules_table["global"]
                             ELSE TArr(<<>>)
    IN
    IF ~IsArr(global_value) THEN UpdateErr(c, "GlobalNotArray")
    ELSE LET global_array == global_value[2]
             path_str == Join(RulesDir, filename)
             existing_index == Position(global_array, FileNameOf(path_str))
             new_array == Upsert(global_array, existing_index, TTab(RuleTable(path_str, tags)))
             new_config == to_string_pretty(UpdatedRoot(root, rules_table, new_array))
    IN [result |-> "Ok", cfg |-> WriteConfig(new_config), index |-> existing_index]

(***************************************************************************)
(* global_rules.rs: remove_from_codex_rules_config                          *)
(***************************************************************************)
\* a retain that drops the first matching item only
Retain_first_only(global_array, filename) ==
    LET i == Position(global_array, filename) IN
    IF i = 0 THEN global_array
    ELSE SubSeq(global_array, 1, i - 1) \o SubSeq(global_array, i + 1, Len(global_array))

\* lines 289-297: Vec::retain of the items whose path has another file name
Retain(global_array, filename) ==
    LET Keep(item) == ~EntryMatches(item, filename) IN
    SelectSeq(global_array, Keep)

\* a removal that leaves rules.global as it is
RemovedRoot_no_retain(root, filename) == root

\* lines 287-299: the root with the matching items removed from rules.global
RemovedRoot(root, filename) ==
    IF Has(root, "rules") /\ IsTab(root["rules"])
    THEN LET rules_table == root["rules"][2] IN
         IF Has(rules_table, "global") /\ IsArr(rules_table["global"])
         THEN Put(root, "rules",
                  TTab(Put(rules_table, "global",
                           TArr(Retain(rules_table["global"][2], filename)))))
         ELSE root
    ELSE root

\* the (result, cfg) of remove_from_codex_rules_config(filename) on config c
remove_from_codex_rules_config(c, filename) ==
    LET rd == read_codex_config_text(c) IN
    IF ~rd.ok THEN [result |-> "ReadError", cfg |-> c]
    ELSE IF IsBlank(rd.text) THEN [result |-> "Ok", cfg |-> c]
    ELSE LET parsed == toml_from_str(rd.text) IN
    IF ~parsed.ok THEN [result |-> "ParseError", cfg |-> c]
    ELSE [result |-> "Ok",
          cfg |-> WriteConfig(to_string_pretty(RemovedRoot(parsed.val, filename)))]

(***************************************************************************)
(* global_rules.rs: list_codex_rules, write_codex_rule, delete_codex_rule   *)
(*                                                                          *)
(* The entries of the rules directory are regular files holding text, and   *)
(* the process may list the directory and read, write and remove them: the  *)
(* calls fail on config.toml only, or on a rule file that is not there.     *)
(* A filename is the name of a file, one path component: rules_dir.join     *)
(* of it is a path directly under the rules directory.                      *)
(***************************************************************************)
\* the orders in which fs::read_dir may yield the names S
ReadDirOrders(S) ==
    { o \in [1..Cardinality(S) -> S] : \A i, j \in 1..Cardinality(S) : o[i] = o[j] => i = j }

\* line 71: a regular file with the extension md
IsRuleFile(name) == ExtensionOf(<<name>>) = "md"

\* lines 81-86: the record of a rule file, tags still empty
RuleRecord(name) ==
    [name |-> name, path |-> Join(RulesDir, name), tags |-> <<>>, content |-> ruleFiles[name]]

\* a lookup that takes the last config rule with that file name
TagsFor_last_match(config_rules, name, tags) ==
    LET hits == { i \in 1..Len(config_rules) : FileNameOf(config_rules[i].path) = name } IN
    IF hits = {} THEN tags
    ELSE config_rules[CHOOSE i \in hits : \A j \in hits : j <= i].tags

\* lines 93-100: the tags of the first config rule with that file name
TagsFor(config_rules, name, tags) ==
    LET hits == { i \in 1..Len(config_rules) : FileNameOf(config_rules[i].path) = name } IN
    IF hits = {} THEN tags
    ELSE config_rules[CHOOSE i \in hits : \A j \in hits : i <= j].tags

\* a listing that gives up when the config cannot be read
ListOutcome_strict(order) ==
    IF ~ruleDir THEN [result |-> "Ok", listed |-> <<>>]
    ELSE IF ~read_codex_rules_config(cfg).ok THEN [result |-> "ConfigError", listed |-> <<>>]
    ELSE LET names == SelectSeq(order, IsRuleFile)
             config_rules == read_codex_rules_config(cfg).rules
         IN [result |-> "Ok",
             listed |-> [i \in 1..Len(names) |->
                            [RuleRecord(names[i]) EXCEPT
                                !.tags = TagsFor(config_rules, names[i], <<>>)]]]

\* the result of list_codex_rules when read_dir yields the names in order
ListOutcome(order) ==
    IF ~ruleDir THEN [result |-> "Ok", listed |-> <<>>]
    ELSE LET names == SelectSeq(order, IsRuleFile)
             rules == [i \in 1..Len(names) |-> RuleRecord(names[i])]
             config == read_codex_rules_config(cfg)
         IN [result |-> "Ok",
             listed |-> IF config.ok
                        THEN [i \in 1..Len(rules) |->
                                 [rules[i] EXCEPT
                                     !.tags = TagsFor(config.rules, rules[i].name, rules[i].tags)]]
                        ELSE rules]

list_codex_rules ==
    \E order \in ReadDirOrders(DOMAIN ruleFiles) :
        LET out == ListOutcome(order) IN
        /\ ruleCall' = [op |-> "list_codex_rules", filename |-> NoName, content |-> "",
                        tags |-> <<>>, result |-> out.result, index |-> 0,
                        listed |-> out.listed]
        /\ UNCHANGED <<ruleDir, ruleFiles, cfg, convVars, scanVars, raceVars>>

write_codex_rule(filename, content, tags) ==
    LET up == update_codex_rules_config(cfg, filename, tags) IN
    /\ ruleDir' = TRUE
    /\ ruleFiles' = [n \in DOMAIN ruleFiles \cup {filename} |->
                        IF n = filename THEN content ELSE ruleFiles[n]]
    /\ cfg' = up.cfg
    /\ ruleCall' = [op |-> "write_codex_rule", filename |-> filename, content |-> content,
                    tags |-> tags, result |-> up.result, index |-> up.index,
                    listed |-> <<>>]
    /\ UNCHANGED <<convVars, scanVars, raceVars>>

\* a delete that puts the rule file back when the config step fails
DeleteRuleOutcome_rollback(filename) ==
    IF ~(ruleDir /\ filename \in DOMAIN ruleFiles)
    THEN [result |-> "NotFound", ruleFiles |-> ruleFiles, cfg |-> cfg]
    ELSE LET rm == remove_from_codex_rules_config(cfg, filename) IN
         [result |-> rm.result,
          ruleFiles |-> IF rm.result = "Ok"
                        THEN [n \in DOMAIN ruleFiles \ {filename} |-> ruleFiles[n]]
                        ELSE ruleFiles,
          cfg |-> rm.cfg]

\* the (result, ruleFiles, cfg) of delete_codex_rule(filename)
DeleteRuleOutcome(filename) ==
    IF ~(ruleDir /\ filename \in DOMAIN ruleFiles)
    THEN [result |-> "NotFound", ruleFiles |-> ruleFiles, cfg |-> cfg]
    ELSE LET rm == remove_from_codex_rules_config(cfg, filename) IN
         [result |-> rm.result,
          ruleFiles |-> [n \in DOMAIN ruleFiles \ {filename} |-> ruleFiles[n]],
          cfg |-> rm.cfg]

delete_codex_rule(filename) ==
    LET out == DeleteRuleOutcome(filename) IN
    /\ ruleFiles' = out.ruleFiles
    /\ cfg' = out.cfg
    /\ ruleCall' = [op |-> "delete_codex_rule", filename |-> filename, content |-> "",
                    tags |-> <<>>, result |-> out.result, index |-> 0, listed |-> <<>>]
    /\ UNCHANGED <<ruleDir, convVars, scanVars, raceVars>>

(***************************************************************************)
(* global_rules.rs: write_codex_rule called by several processes.  No lock  *)
(* is taken, so the file system calls of one call may fall between those of *)
(* another: the write of the rule file, the read of config.toml, and the    *)
(* write of the updated config.toml.                                        *)
(***************************************************************************)
Writers == {1, 2}

IdleWriter ==
    [pc |-> "idle", filename |-> NoName, content |-> "", tags |-> <<>>,
     config_text |-> BlankText, result |-> "none", overlapped |-> FALSE]

\* the writers that have written their rule file and not yet returned
InProgress == { w \in Writers : writers[w].pc \in {"read", "update"} }

\* lines 120-130: the call starts, creates the rules directory and writes
\* the rule file; a call that starts while another is in progress overlaps it
write_rule_file(w, filename, content, tags) ==
    /\ w \notin InProgress
    /\ ruleDir' = TRUE
    /\ ruleFiles' = [n \in DOMAIN ruleFiles \cup {filename} |->
                        IF n = filename THEN content ELSE ruleFiles[n]]
    /\ writers' = [v \in Writers |->
                      IF v = w
                      THEN [pc |-> "read", filename |-> filename, content |-> content,
                            tags |-> tags, config_text |-> BlankText, result |-> "none",
                            overlapped |-> InProgress # {}]
                      ELSE IF v \in InProgress
                      THEN [writers[v] EXCEPT !.overlapped = TRUE]
                      ELSE writers[v]]
    /\ UNCHANGED <<cfg, ruleCall, convVars, scanVars>>

\* line 212: update_codex_rules_config reads the text of config.toml
read_config_text(w) ==
    /\ writers[w].pc = "read"
    /\ LET rd == read_codex_config_text(cfg) IN
       writers' = [writers EXCEPT ![w] =
                      IF rd.ok
                      THEN [@ EXCEPT !.pc = "update", !.config_text = rd.text]
                      ELSE [@ EXCEPT !.pc = "done", !.result = "ReadError"]]
    /\ UNCHANGED <<ruleVars, convVars, scanVars>>

\* a second writer that keeps only its own item
UpdateOfText_own_item(text, filename, tags) ==
    [result |-> "Ok",
     cfg |-> WriteConfig(to_string_pretty(
                 UpdatedRoot(EmptyTable, EmptyTable,
                             <<TTab(RuleTable(Join(RulesDir, filename), tags))>>))),
     index |-> 0]

\* lines 214-270 on the text that was read at line 212
UpdateOfText(text, filename, tags) ==
    update_codex_rules_config(WriteConfig(text), filename, tags)

\* lines 214-272: the text read is parsed and updated, the result is written
\* over config.toml, and the call returns
write_config(w) ==
    /\ writers[w].pc = "update"
    /\ LET up == UpdateOfText(writers[w].config_text, writers[w].filename, writers[w].tags) IN
       /\ cfg' = IF up.result = "Ok" THEN up.cfg ELSE cfg
       /\ writers' = [writers EXCEPT ![w] = [@ EXCEPT !.pc = "done", !.result = up.result]]
    /\ UNCHANGED <<ruleDir, ruleFiles, ruleCall, convVars, scanVars>>

(***************************************************************************)
(* Strings as the scan and the search read them.  A name is a tuple of its  *)
(* dot-separated parts; CharsOf gives the characters of a part, so that     *)
(* to_lowercase() and contains() are computed character by character.       *)
(***************************************************************************)
\* Option<T>
NoneVal == <<"None">>
Some(x) == <<"Some", x>>
IsSome(o) == o[1] = "Some"

\* the characters of the strings that occur in names, session ids and keywords
CharsOf(s) ==
    CASE s = "" -> <<>>
      [] s = "abc1" -> <<"a", "b", "c", "1">>
      [] s = "xyz7" -> <<"x", "y", "z", "7">>
      [] s = "r1" -> <<"r", "1">>
      [] s = "r2" -> <<"r", "2">>
      [] s = "proj-x" -> <<"p", "r", "o", "j", "-", "x">>
      [] s = "Proj-Y" -> <<"P", "r", "o", "j", "-", "Y">>
      [] s = "S1" -> <<"S", "1">>
      [] s = "S2" -> <<"S", "2">>
      [] s = "ABC" -> <<"A", "B", "C">>
      [] s = "s2" -> <<"s", "2">>
      [] s = "j-y" -> <<"j", "-", "y">>
      [] s = "zzz" -> <<"z", "z", "z">>

\* char::to_lowercase for the letters that occur
LowerChar(c) ==
    CASE c = "A" -> "a"
      [] c = "B" -> "b"
      [] c = "C" -> "c"
      [] c = "P" -> "p"
      [] c = "S" -> "s"
      [] c = "Y" -> "y"
      [] OTHER -> c

\* str::to_lowercase
to_lowercase(cs) == [i \in 1..Len(cs) |-> LowerChar(cs[i])]

\* str::contains: needle is a substring of hay
contains(hay, needle) ==
    \E i \in 0..(Len(hay) - Len(needle)) : SubSeq(hay, i + 1, i + Len(needle)) = needle

RECURSIVE NameChars(_)

\* the characters of a name: its parts with a dot between them
NameChars(name) ==
    IF Len(name) = 0 THEN <<>>
    ELSE IF Len(name) = 1 THEN CharsOf(name[1])
    ELSE CharsOf(name[1]) \o <<".">> \o NameChars(Tail(name))

\* str::starts_with('.') for a name
StartsWithDot(name) == Len(name) > 1 /\ name[1] = ""

\* Path::file_stem: the file name without its extension
FileStemOf(p) ==
    LET n == FileNameOf(p) IN
    IF ExtensionOf(p) = "" THEN n ELSE SubSeq(n, 1, Len(n) - 1)

(***************************************************************************)
(* serde_json: a line of a record file is a JSON value or no JSON at all    *)
(***************************************************************************)
JStr(s) == <<"string", s>>
JNum(n) == <<"number", n>>
JObj(o) == <<"object", o>>
NotJson == <<"invalid", "{">>

IsJStr(v) == v[1] = "string"
IsJObj(v) == v[1] = "object"

\* a required field of type String
HasString(o, k) == Has(o, k) /\ IsJStr(o[k])

\* serde_json::from_str::<ClaudeMessage>: uuid, sessionId, type and timestamp
\* are strings, message is there, parentUuid is a string when it is there
ParseClaudeMessage(line) ==
    IF /\ IsJObj(line)
       /\ HasString(line[2], "uuid")
       /\ HasString(line[2], "sessionId")
       /\ HasString(line[2], "type")
       /\ HasString(line[2], "timestamp")
       /\ Has(line[2], "message")
       /\ Has(line[2], "parentUuid") => IsJStr(line[2]["parentUuid"])
    THEN Some([session_id |-> line[2]["sessionId"][2]])
    ELSE NoneVal

\* a CodexMessage that needs no timestamp
ParseCodexMessage_no_timestamp(line) ==
    IF /\ IsJObj(line)
       /\ HasString(line[2], "type")
       /\ Has(line[2], "payload")
    THEN Some([msg_type |-> line[2]["type"][2], payload |-> line[2]["payload"]])
    ELSE NoneVal

\* serde_json::from_str::<CodexMessage>: timestamp and type are strings,
\* payload is there
ParseCodexMessage(line) ==
    IF /\ IsJObj(line)
       /\ HasString(line[2], "timestamp")
       /\ HasString(line[2], "type")
       /\ Has(line[2], "payload")
    THEN Some([msg_type |-> line[2]["type"][2], payload |-> line[2]["payload"]])
    ELSE NoneVal

\* lines 130-134: the session id of a Claude record with these lines
ClaudeSessionId(content) ==
    IF Len(content) = 0 THEN NoneVal
    ELSE LET msg == ParseClaudeMessage(Head(content)) IN
         IF IsSome(msg) THEN Some(msg[2].session_id) ELSE NoneVal

\* lines 242-255: the session id of a Codex record with these lines
CodexSessionId(content) ==
    IF Len(content) = 0 THEN NoneVal
    ELSE LET msg == ParseCodexMessage(Head(content)) IN
         IF ~IsSome(msg) THEN NoneVal
         ELSE IF msg[2].msg_type # "session_meta" THEN NoneVal
         ELSE LET payload == msg[2].payload IN
              IF IsJObj(payload) /\ HasString(payload[2], "id")
              THEN Some(payload[2]["id"][2])
              ELSE NoneVal

(***************************************************************************)
(* conversation.rs: the scans.  fileInfo[f] holds what fs::metadata and     *)
(* fs::read_to_string give for the file f: whether they succeed, the        *)
(* modification time in seconds and the lines of the text.  The size and    *)
(* the creation time are copied into the record as they are and play no     *)
(* part in the order or in the search; they are left out.                   *)
(***************************************************************************)
\* fs::metadata and fs::read_to_string both succeed on f
MetaOk(f) == fileInfo[f].readable

\* lines 111-160
get_claude_conversation_meta(file_path, project_name) ==
    [id            |-> FileStemOf(file_path),
     app_type      |-> "claude",
     file_path     |-> file_path,
     modified_at   |-> fileInfo[file_path].modified_at,
     message_count |-> Len(fileInfo[file_path].content),
     project_name  |-> Some(project_name),
     session_id    |-> ClaudeSessionId(fileInfo[file_path].content)]

\* lines 226-281
get_codex_conversation_meta(file_path) ==
    [id            |-> FileStemOf(file_path),
     app_type      |-> "codex",
     file_path     |-> file_path,
     modified_at   |-> fileInfo[file_path].modified_at,
     message_count |-> Len(fileInfo[file_path].content),
     project_name  |-> NoneVal,
     session_id    |-> CodexSessionId(fileInfo[file_path].content)]

\* Path::is_dir
IsDir(p) == p \in dirs

\* the orders in which the nested read_dir loops can come across the files
\* of the tree: the files of one directory are met together
WalkOrders ==
    { o \in ReadDirOrders(files) :
        \A i, j, k \in 1..Len(o) :
            i < j /\ j < k =>
                \A d \in dirs : IsPrefix(d, o[i]) /\ IsPrefix(d, o[k]) => IsPrefix(d, o[j]) }

\* a sort by modified_at in rising order
RECURSIVE sort_ascending(_)
sort_ascending(s) ==
    IF Len(s) = 0 THEN <<>>
    ELSE LET x == s[Len(s)]
             sorted == sort_ascending(SubSeq(s, 1, Len(s) - 1))
             k == Cardinality({ i \in 1..Len(sorted) : sorted[i].modified_at <= x.modified_at })
         IN SubSeq(sorted, 1, k) \o <<x>> \o SubSeq(sorted, k + 1, Len(sorted))

\* lines 105 and 220: sort_by(|a, b| b.modified_at.cmp(&a.modified_at)), a
\* stable sort: records with equal times keep the order they were pushed in
RECURSIVE sort_by_modified_desc(_)
sort_by_modified_desc(s) ==
    IF Len(s) = 0 THEN <<>>
    ELSE LET x == s[Len(s)]
             sorted == sort_by_modified_desc(SubSeq(s, 1, Len(s) - 1))
             k == Cardinality({ i \in 1..Len(sorted) : sorted[i].modified_at >= x.modified_at })
         IN SubSeq(sorted, 1, k) \o <<x>> \o SubSeq(sorted, k + 1, Len(sorted))

ScanErr == [result |-> "Err", records |-> <<>>]

\* lines 82-86: the project containers the Claude scan goes into
ClaudeContainers(root) ==
    { d \in Entries(dirs, files, root) : IsDir(d) /\ ~StartsWithDot(FileNameOf(d)) }

\* lines 66-108: list_claude_conversations when the loops meet the files in order
ClaudeScan(order) ==
    LET projects_dir == ClaudeRoot IN
    IF ~Exists(dirs, files, projects_dir) THEN [result |-> "Ok", records |-> <<>>]
    ELSE IF ~ReadDirOk(dirs, projects_dir) THEN ScanErr
    ELSE IF \E d \in ClaudeContainers(projects_dir) : ~ReadDirOk(dirs, d) THEN ScanErr
    ELSE LET Pushed(f) == /\ ParentOf(f) \in ClaudeContainers(projects_dir)
                          /\ ExtensionOf(f) = "jsonl"
                          /\ MetaOk(f)
             found == SelectSeq(order, Pushed)
             conversations ==
                 [i \in 1..Len(found) |->
                     get_claude_conversation_meta(found[i], FileNameOf(ParentOf(found[i])))]
         IN [result |-> "Ok", records |-> sort_by_modified_desc(conversations)]

\* lines 172-200: the directories the Codex scan lists below the root, level
\* by level: years, months, days
SubDirs(ds) == { d \in dirs : Len(d) > 0 /\ ParentOf(d) \in ds }

\* a Codex scan that goes on to read_dir without looking for the root
CodexScan_no_exists_check(order) ==
    LET sessions_dir == CodexRoot
        years == SubDirs({sessions_dir})
        months == SubDirs(years)
        days == SubDirs(months)
    IN
    IF \E d \in {sessions_dir} \cup years \cup months \cup days : ~ReadDirOk(dirs, d)
    THEN ScanErr
    ELSE LET Pushed(f) == /\ ParentOf(f) \in days
                          /\ ExtensionOf(f) = "jsonl"
                          /\ MetaOk(f)
             found == SelectSeq(order, Pushed)
             conversations ==
                 [i \in 1..Len(found) |-> get_codex_conversation_meta(found[i])]
         IN [result |-> "Ok", records |-> sort_by_modified_desc(conversations)]

\* lines 163-223: list_codex_conversations when the loops meet the files in order
CodexScan(order) ==
    LET sessions_dir == CodexRoot
        years == SubDirs({sessions_dir})
        months == SubDirs(years)
        days == SubDirs(months)
    IN
    IF ~Exists(dirs, files, sessions_dir) THEN [result |-> "Ok", records |-> <<>>]
    ELSE IF \E d \in {sessions_dir} \cup years \cup months \cup days : ~ReadDirOk(dirs, d)
    THEN ScanErr
    ELSE LET Pushed(f) == /\ ParentOf(f) \in days
                          /\ ExtensionOf(f) = "jsonl"
                          /\ MetaOk(f)
             found == SelectSeq(order, Pushed)
             conversations ==
                 [i \in 1..Len(found) |-> get_codex_conversation_meta(found[i])]
         IN [result |-> "Ok", records |-> sort_by_modified_desc(conversations)]

\* lines 357-369: the filter of search_conversations
Matches(conv, keyword_lower) ==
    \/ contains(to_lowercase(NameChars(conv.id)), keyword_lower)
    \/ /\ IsSome(conv.project_name)
       /\ contains(to_lowercase(NameChars(conv.project_name[2])), keyword_lower)
    \/ /\ IsSome(conv.session_id)
       /\ contains(to_lowercase(CharsOf(conv.session_id[2])), keyword_lower)

\* a search over both backends that sorts the whole list again
Gather_resorted(app_type, order) ==
    IF app_type = Some("claude") THEN ClaudeScan(order)
    ELSE IF app_type = Some("codex") THEN CodexScan(order)
    ELSE LET a == ClaudeScan(order)
             b == CodexScan(order)
         IN IF a.result # "Ok" THEN a
            ELSE IF b.result # "Ok" THEN b
            ELSE [result |-> "Ok", records |-> sort_by_modified_desc(a.records \o b.records)]

\* lines 331-346: all_conversations
Gather(app_type, order) ==
    IF app_type = Some("claude") THEN ClaudeScan(order)
    ELSE IF app_type = Some("codex") THEN CodexScan(order)
    ELSE LET a == ClaudeScan(order)
             b == CodexScan(order)
         IN IF a.result # "Ok" THEN a
            ELSE IF b.result # "Ok" THEN b
            ELSE [result |-> "Ok", records |-> a.records \o b.records]

\* a filter that compares the keyword as it was typed
Filter_case_sensitive(all_conversations, keyword) ==
    LET keyword_lower == CharsOf(keyword)
        Keep(conv) == Matches(conv, keyword_lower)
    IN SelectSeq(all_conversations, Keep)

\* lines 349-372: the records search_conversations returns of all_conversations
Filter(all_conversations, keyword) ==
    IF Len(CharsOf(keyword)) = 0 THEN all_conversations
    ELSE LET keyword_lower == to_lowercase(CharsOf(keyword))
             Keep(conv) == Matches(conv, keyword_lower)
         IN SelectSeq(all_conversations, Keep)

\* lines 327-373
SearchOutcome(app_type, keyword, order) ==
    LET all == Gather(app_type, order) IN
    IF all.result # "Ok" THEN all
    ELSE [result |-> "Ok", records |-> Filter(all.records, keyword)]

\* the scans take the order in which read_dir yields the entries as given
list_claude_conversations(order) ==
        LET out == ClaudeScan(order) IN
        /\ scanCall' = [op |-> "list_claude_conversations", app_type |-> NoneVal,
                        keyword |-> "", result |-> out.result, records |-> out.records]
        /\ UNCHANGED <<fileInfo, convVars, ruleVars, raceVars>>

list_codex_conversations(order) ==
        LET out == CodexScan(order) IN
        /\ scanCall' = [op |-> "list_codex_conversations", app_type |-> NoneVal,
                        keyword |-> "", result |-> out.result, records |-> out.records]
        /\ UNCHANGED <<fileInfo, convVars, ruleVars, raceVars>>

search_conversations(app_type, keyword, order) ==
        LET out == SearchOutcome(app_type, keyword, order) IN
        /\ scanCall' = [op |-> "search_conversations", app_type |-> app_type,
                        keyword |-> keyword, result |-> out.result, records |-> out.records]
        /\ UNCHANGED <<fileInfo, convVars, ruleVars, raceVars>>

(***************************************************************************)
(* The rules directory and the config.toml the rule store starts with       *)
(***************************************************************************)
\* sections of config.toml that are not the rule store's
OtherSections ==
    { EmptyTable,
      Put(Put(EmptyTable, "model", TStr("o3")),
          "mcp_servers", TTab(Put(EmptyTable, "command", TStr("npx")))) }

\* items found in a rules.global that was edited by hand: an item without a
\* path, an item with a stale directory and two tags, an item whose tags are
\* not an array, and an item of another rule with a tag that is no string
InitEntries ==
    { TTab(Put(EmptyTable, "tags", TArr(<<TStr("t1")>>))),
      TTab(Put(Put(EmptyTable, "path", TStr(Join(StaleRulesDir, RuleA))),
               "tags", TArr(<<TStr("t2"), TStr("t1")>>))),
      TTab(Put(Put(EmptyTable, "path", TStr(Join(RulesDir, RuleA))),
               "tags", TStr("t1"))),
      TTab(Put(Put(EmptyTable, "path", TStr(Join(RulesDir, RuleB))),
               "tags", TArr(<<TInt(7), TStr("t1")>>))) }

InitArrays == UNION { [1..k -> InitEntries] : k \in 0..MaxInitEntries }

\* what the key rules holds: a string, a table without global, a table whose
\* global is a string, or a table with a global array
InitRules ==
    { TStr("x"), TTab(EmptyTable), TTab(Put(EmptyTable, "global", TStr("x"))) }
    \cup { TTab(Put(EmptyTable, "global", TArr(a))) : a \in InitArrays }

InitDocs == OtherSections \cup { Put(o, "rules", r) : o \in OtherSections, r \in InitRules }

InitConfigs ==
    { [file |-> "absent", text |-> BlankText],
      [file |-> "unreadable", text |-> BlankText],
      WriteConfig(BlankText),
      WriteConfig(InvalidText) }
    \cup { WriteConfig([form |-> "hand", doc |-> d]) : d \in InitDocs }

NoRuleCall ==
    [op |-> "none", filename |-> NoName, content |-> "", tags |-> <<>>,
     result |-> "none", index |-> 0, listed |-> <<>>]

RulesIdle ==
    /\ ruleDir = FALSE
    /\ ruleFiles = [n \in {} |-> ""]
    /\ cfg = [file |-> "absent", text |-> BlankText]
    /\ ruleCall = NoRuleCall

RulesInit ==
    /\ ruleDir \in BOOLEAN
    /\ \E S \in SUBSET InitNames :
          /\ ~ruleDir => S = {}
          /\ ruleFiles = [n \in S |-> "c0"]
    /\ cfg \in InitConfigs
    /\ ruleCall = NoRuleCall

ConvIdle ==
    /\ files = {}
    /\ dirs = TreeDirs({})
    /\ unreadable = {}
    /\ readonly = {}
    /\ convCall = NoCall

NoScanCall == [op |-> "none", app_type |-> NoneVal, keyword |-> "", result |-> "none", records |-> <<>>]

\* no scan has run, and nothing is recorded of what the record files hold
ScanIdle ==
    /\ fileInfo = [f \in {} |-> f]
    /\ scanCall = NoScanCall

\* no write_codex_rule call is in progress
RaceIdle == writers = [w \in {} |-> w]

(***************************************************************************)
(* Specifications: Spec runs the conversation.rs calls on a tree, SpecRules *)
(* runs the global_rules.rs calls on a rules directory and a config.toml    *)
(***************************************************************************)
RECURSIVE SubsetsUpTo(_, _)

\* the subsets of S with at most k elements
SubsetsUpTo(S, k) ==
    IF k = 0 THEN {{}}
    ELSE LET smaller == SubsetsUpTo(S, k - 1) IN
         smaller \cup { T \cup {x} : T \in smaller, x \in S }

\* a tree of at most MaxInitFiles record files in which at most MaxFaults
\* directories, at or below a backend root, lack the read bit (no listing)
\* or the write bit (no removal of an entry)
ConvInit ==
    /\ \E F \in SubsetsUpTo(CandFiles, MaxInitFiles) :
          /\ files = F
          /\ dirs = TreeDirs(F)
    /\ \E B \in SubsetsUpTo({ d \in dirs : \E r \in Roots : IsPrefix(r, d) } \X {"r", "w"},
                            MaxFaults) :
          /\ unreadable = { d \in dirs : <<d, "r">> \in B }
          /\ readonly = { d \in dirs : <<d, "w">> \in B }
    /\ convCall = NoCall

Init == ConvInit /\ RulesIdle /\ ScanIdle /\ RaceIdle

Next == \E p \in DeleteInputs : delete_conversation(p)

Spec == Init /\ [][Next]_vars

RuleStoreInit == RulesInit /\ ConvIdle /\ ScanIdle /\ RaceIdle

NextRules ==
    \/ \E w \in WriteInputs, c \in Contents : write_codex_rule(w[1], c, w[2])
    \/ \E f \in DeleteNames : delete_codex_rule(f)
    \/ list_codex_rules

SpecRules == RuleStoreInit /\ [][NextRules]_vars

\* a rule store nobody has used yet: no rules directory or an empty one, and
\* no config.toml or an empty one
FreshInit ==
    /\ ruleDir \in BOOLEAN
    /\ ruleFiles = [n \in {} |-> ""]
    /\ cfg \in { [file |-> "absent", text |-> BlankText], WriteConfig(BlankText) }
    /\ ruleCall = NoRuleCall
    /\ ConvIdle /\ ScanIdle /\ RaceIdle

\* the (filename, tags) written to a fresh rule store: a.md with every tag
\* list, b.md and n.txt with few
FreshWriteInputs ==
    ({RuleA} \X TagLists(MaxTags))
    \cup ({RuleB} \X {<<>>, <<"t1">>})
    \cup {<<NotesTxt, <<"t1">>>>}

\* the calls on the rule store, one after the other
NextFresh ==
    \/ \E w \in FreshWriteInputs, c \in Contents : write_codex_rule(w[1], c, w[2])
    \/ \E f \in DeleteNames : delete_codex_rule(f)

SpecFresh == FreshInit /\ [][NextFresh]_vars

\* the config.toml two writers start on: none, one that cannot be read, an
\* empty one, one that does not parse, and one with other sections
RaceConfigs ==
    { [file |-> "absent", text |-> BlankText],
      [file |-> "unreadable", text |-> BlankText],
      WriteConfig(BlankText),
      WriteConfig(InvalidText) }
    \cup { WriteConfig([form |-> "hand", doc |-> d]) : d \in OtherSections \ {EmptyTable} }

\* the (filename, tags) the writers hand to write_codex_rule
RaceWriteInputs == {RuleA, RuleB} \X {<<>>, <<"t1">>}

RaceInit ==
    /\ ruleDir = FALSE
    /\ ruleFiles = [n \in {} |-> ""]
    /\ cfg \in RaceConfigs
    /\ ruleCall = NoRuleCall
    /\ writers = [w \in Writers |-> IdleWriter]
    /\ ConvIdle /\ ScanIdle

NextRace ==
    \E w \in Writers :
        \/ \E inp \in RaceWriteInputs, c \in Contents : write_rule_file(w, inp[1], c, inp[2])
        \/ read_config_text(w)
        \/ write_config(w)

SpecRace == RaceInit /\ [][NextRace]_vars

(***************************************************************************)
(* The trees a scan starts on                                               *)
(***************************************************************************)
\* a first line as Claude writes it
ClaudeLine ==
    JObj(Put(Put(Put(Put(Put(EmptyTable, "uuid", JStr("u1")), "sessionId", JStr("S1")),
                     "type", JStr("user")), "timestamp", JStr("t")),
             "message", JObj(EmptyTable)))

\* a first line as Codex writes it: session_meta with the id in the payload
MetaLine ==
    JObj(Put(Put(Put(EmptyTable, "timestamp", JStr("t")), "type", JStr("session_meta")),
             "payload", JObj(Put(EmptyTable, "id", JStr("S2")))))

\* {"type":"session_meta","payload":{"id":"S2"}}
BareMetaLine ==
    JObj(Put(Put(EmptyTable, "type", JStr("session_meta")),
             "payload", JObj(Put(EmptyTable, "id", JStr("S2")))))

\* a first line of another type
OtherTypeLine ==
    JObj(Put(Put(Put(EmptyTable, "timestamp", JStr("t")), "type", JStr("response_item")),
             "payload", JObj(Put(EmptyTable, "id", JStr("S2")))))

\* a session_meta line whose payload has an id that is no string
NoIdLine ==
    JObj(Put(Put(Put(EmptyTable, "timestamp", JStr("t")), "type", JStr("session_meta")),
             "payload", JObj(Put(EmptyTable, "id", JNum(7)))))

\* metadata.modified() in seconds
Times == {1, 2}

ProjX == Join(ClaudeRoot, <<"proj-x">>)
ProjY == Join(ClaudeRoot, <<"Proj-Y">>)
HiddenDir == Join(ClaudeRoot, <<"", "zzz">>)
Day1 == Join(Join(Join(CodexRoot, <<"2025">>), <<"01">>), <<"01">>)
Day2 == Join(Join(Join(CodexRoot, <<"2025">>), <<"01">>), <<"02">>)

ClaudeRec1 == Join(ProjX, <<"abc1", "jsonl">>)
ClaudeRec2 == Join(ProjY, <<"xyz7", "jsonl">>)
CodexRec1 == Join(Day1, <<"r1", "jsonl">>)
CodexRec2 == Join(Day2, <<"r2", "jsonl">>)

\* files a scan passes over: a record in a hidden container, a file that is
\* no record, a file directly in the Claude root, a file at the month level
PassedOver ==
    { Join(HiddenDir, <<"r1", "jsonl">>),
      Join(ProjX, <<"abc1", "txt">>),
      Join(ClaudeRoot, <<"r2", "jsonl">>),
      Join(Join(CodexRoot, <<"2025">>), <<"r2", "jsonl">>) }

ScanCandFiles == {ClaudeRec1, ClaudeRec2, CodexRec1, CodexRec2} \cup PassedOver

Unreadable == [readable |-> FALSE, modified_at |-> 1, content |-> <<>>]

Readable(ts, contents) ==
    { [readable |-> TRUE, modified_at |-> t, content |-> c] : t \in ts, c \in contents }

\* what a file of the initial tree may hold
InfoChoices(f) ==
    CASE f = ClaudeRec1 -> Readable(Times, {<<ClaudeLine, NotJson>>, <<NotJson>>}) \cup {Unreadable}
      [] f = ClaudeRec2 -> Readable(Times, {<<ClaudeLine>>})
      [] f = CodexRec1 ->
            Readable({2}, {<<MetaLine>>, <<BareMetaLine>>, <<OtherTypeLine>>,
                           <<NoIdLine>>, <<NotJson>>, <<>>}) \cup {Unreadable}
      [] f = CodexRec2 -> Readable(Times, {<<MetaLine, NotJson>>})
      [] OTHER -> Readable({2}, {<<ClaudeLine>>})

\* the (app_type, keyword) handed to search_conversations
SearchInputs ==
    { <<NoneVal, "">>, <<NoneVal, "ABC">>, <<NoneVal, "s2">>, <<Some("claude"), "j-y">>,
      <<Some("codex"), "">>, <<Some("other"), "zzz">> }

\* the directories that may lack the read bit
FaultDirs == {ClaudeRoot, ProjX, HiddenDir, CodexRoot, ParentOf(Day1)}

\* a tree of at most MaxScanFiles files; a backend root without a file below
\* it may be missing, and at most one directory cannot be listed
ScanInit ==
    /\ \E F \in SubsetsUpTo(ScanCandFiles, MaxScanFiles) :
          /\ files = F
          /\ fileInfo \in [F -> UNION { InfoChoices(f) : f \in F }]
          /\ \A f \in F : fileInfo[f] \in InfoChoices(f)
          /\ \E R \in SUBSET { r \in Roots : \A f \in F : ~IsPrefix(r, f) } :
                dirs = TreeDirs(F) \ R
    /\ \E d \in (FaultDirs \cap dirs) \cup {NoName} :
          unreadable = IF d = NoName THEN {} ELSE {d}
    /\ readonly = {}
    /\ convCall = NoCall
    /\ scanCall = NoScanCall
    /\ RulesIdle
    /\ RaceIdle

NextScan ==
    \E order \in WalkOrders :
        \/ list_claude_conversations(order)
        \/ list_codex_conversations(order)
        \/ \E inp \in SearchInputs : search_conversations(inp[1], inp[2], order)

SpecScan == ScanInit /\ [][NextScan]_vars


(***************************************************************************)
(* Claims about delete_conversation                                         *)
(***************************************************************************)
DeletedOk == convCall.op = "delete_conversation" /\ convCall.result = "Ok"

StrictlyBelowRoot(d) == \E r \in Roots : IsProperAncestor(r, d)

\* an ancestor of the deleted file, strictly below a backend root, that the
\* call left behind empty
LeftEmpty(d) ==
    /\ d \in dirs
    /\ IsProperAncestor(d, convCall.path)
    /\ StrictlyBelowRoot(d)
    /\ Entries(dirs, files, d) = {}

\* C1: whatever delete_conversation calls were made, both backend root
\* directories still exist.
C1_RootsKept == ClaudeRoot \in dirs /\ CodexRoot \in dirs

\* C2 as stated, already where every directory can be listed and written:
\* after a successful delete_conversation no ancestor of the deleted file
\* that lies strictly below a backend root is left empty.
C2_AllEmptyAncestorsRemoved ==
    (DeletedOk /\ unreadable = {} /\ readonly = {}) => \A d \in dirs : ~LeftEmpty(d)

\* C2 (amended): after a successful delete_conversation an ancestor of the
\* deleted file strictly below a backend root is left empty only where the
\* walk had to stop: the directory cannot be listed, cannot be removed, or
\* (above the file's own directory) is named projects or sessions.
C2_EmptyAncestorsRemovedUpToStop ==
    DeletedOk =>
        \A d \in dirs :
            LeftEmpty(d) =>
                \/ d \in unreadable
                \/ ParentOf(d) \in readonly
                \/ /\ d # ParentOf(convCall.path)
                   /\ FileNameOf(d) \in {<<"sessions">>, <<"projects">>}

\* C2 witness: a delete below the Codex root removed the day, month and year
\* directories and stopped at the root.
C2_Witness ==
    /\ DeletedOk
    /\ IsProperAncestor(CodexRoot, convCall.path)
    /\ Len(convCall.path) = Len(CodexRoot) + 4
    /\ SubSeq(convCall.path, 1, Len(CodexRoot) + 1) \notin dirs
    /\ CodexRoot \in dirs

\* C3: a delete_conversation of a path that does not exist returns the
\* not-found error and changes neither files nor directories; so does a
\* delete of the path that the call before it deleted successfully.
C3_DeleteMissingFails ==
    [][ convCall'.op = "delete_conversation" =>
          /\ ~Exists(dirs, files, convCall'.path) =>
                /\ convCall'.result = "NotFound"
                /\ dirs' = dirs
                /\ files' = files
          /\ (DeletedOk /\ convCall'.path = convCall.path) =>
                /\ convCall'.result = "NotFound"
                /\ dirs' = dirs
                /\ files' = files ]_vars

\* C3 witness: a record file that is not in the tree was deleted again.
C3_Witness ==
    /\ convCall.op = "delete_conversation"
    /\ convCall.result = "NotFound"
    /\ convCall.path \in CandFiles
    /\ convCall.path \notin files

(***************************************************************************)
(* Claims about the rule store                                              *)
(***************************************************************************)
\* the table a parse of config.toml gives, empty when there is nothing to parse
DocOf(c) ==
    IF c.file = "present" /\ c.text.form # "invalid" THEN c.text.doc ELSE EmptyTable

HasGlobal(c) ==
    /\ Has(DocOf(c), "rules")
    /\ IsTab(DocOf(c)["rules"])
    /\ Has(DocOf(c)["rules"][2], "global")
    /\ IsArr(DocOf(c)["rules"][2]["global"])

\* the array rules.global of config.toml, empty when there is none
GlobalOf(c) == IF HasGlobal(c) THEN DocOf(c)["rules"][2]["global"][2] ELSE <<>>

\* every item of rules.global is a table with a string path
WellFormedGlobal(c) ==
    \A i \in 1..Len(GlobalOf(c)) :
        /\ IsTab(GlobalOf(c)[i])
        /\ Has(GlobalOf(c)[i][2], "path")
        /\ IsStr(GlobalOf(c)[i][2]["path"])

WroteOk == ruleCall.op = "write_codex_rule" /\ ruleCall.result = "Ok"

\* a list_codex_rules step right after a successful write_codex_rule of a
\* rule file name, which is a name with the extension md
ListAfterWrite ==
    /\ WroteOk
    /\ IsRuleFile(ruleCall.filename)
    /\ ruleCall'.op = "list_codex_rules"

\* C4 as stated: a successful write_codex_rule(filename, content, T) of a rule
\* file name followed by list_codex_rules returns a record for that file whose
\* tags equal T in the same order, also when T is empty and an earlier write
\* gave tags.
C4_RoundTrip ==
    [][ListAfterWrite =>
          \E i \in 1..Len(ruleCall'.listed) :
              /\ ruleCall'.listed[i].name = ruleCall.filename
              /\ ruleCall'.listed[i].tags = ruleCall.tags]_vars

\* C4 as amended: a successful write_codex_rule(filename, content, T) of a
\* rule file name followed by list_codex_rules returns a record for that file
\* whose tags equal T in the same order when every item of rules.global is a
\* table with a string path, and are empty when some item is not; with T
\* empty the tags are empty in both cases.
C4_RoundTripWellFormed ==
    [][ListAfterWrite =>
          \E i \in 1..Len(ruleCall'.listed) :
              /\ ruleCall'.listed[i].name = ruleCall.filename
              /\ ruleCall'.listed[i].tags =
                     IF WellFormedGlobal(cfg) THEN ruleCall.tags ELSE <<>>]_vars

\* a listing shows a.md with the two tags that only a write can have given it
C4_Witness ==
    /\ ruleCall.op = "list_codex_rules"
    /\ \E i \in 1..Len(ruleCall.listed) :
          /\ ruleCall.listed[i].name = RuleA
          /\ ruleCall.listed[i].tags = <<"t1", "t2">>

\* the step is a write_codex_rule or a delete_codex_rule that returns Ok
MutatedOk ==
    /\ ruleCall'.op \in {"write_codex_rule", "delete_codex_rule"}
    /\ ruleCall'.result = "Ok"

\* C5: every top-level section of config.toml other than rules that is there
\* before a successful write_codex_rule or delete_codex_rule is there after it
\* with the same keys and values; step by step, so for every sequence of them.
C5_OtherSectionsKept ==
    [][MutatedOk =>
          \A k \in DOMAIN DocOf(cfg) \ {"rules"} :
              /\ k \in DOMAIN DocOf(cfg')
              /\ DocOf(cfg')[k] = DocOf(cfg)[k]]_vars

\* a write or delete has rewritten a config.toml that holds other sections
C5_Witness ==
    /\ ruleCall.op \in {"write_codex_rule", "delete_codex_rule"}
    /\ ruleCall.result = "Ok"
    /\ cfg.text.form = "pretty"
    /\ Has(DocOf(cfg), "model")
    /\ Has(DocOf(cfg), "mcp_servers")

\* the step is a write_codex_rule that returns Ok
WriteStepOk == ruleCall'.op = "write_codex_rule" /\ ruleCall'.result = "Ok"

\* C6: write_codex_rule upserts rules.global by file name: when an item whose
\* path has that file name is there, the item is replaced at its index and the
\* length stays; otherwise one item is appended at the end; every other item
\* keeps its content and its place.
C6_UpsertByFileName ==
    [][WriteStepOk =>
          LET pre == GlobalOf(cfg)
              post == GlobalOf(cfg')
              name == ruleCall'.filename
          IN IF \E i \in 1..Len(pre) : EntryMatches(pre[i], name)
             THEN /\ Len(post) = Len(pre)
                  /\ \E i \in 1..Len(pre) :
                        /\ EntryMatches(pre[i], name)
                        /\ EntryMatches(post[i], name)
                        /\ \A j \in 1..Len(pre) : j # i => post[j] = pre[j]
             ELSE /\ Len(post) = Len(pre) + 1
                  /\ EntryMatches(post[Len(post)], name)
                  /\ SubSeq(post, 1, Len(pre)) = pre]_vars

\* a write has replaced the second of two items and left the first alone
C6_Witness ==
    /\ WroteOk
    /\ ruleCall.index = 2
    /\ Len(GlobalOf(cfg)) = 2
    /\ ~EntryMatches(GlobalOf(cfg)[1], ruleCall.filename)

\* the item of rules.global that the last write stored
StoredItem ==
    LET arr == GlobalOf(cfg) IN
    arr[IF ruleCall.index # 0 THEN ruleCall.index ELSE Len(arr)]

\* C7: the item write_codex_rule stores in rules.global has a tags field
\* exactly when the tag list of the write is not empty: after a write with no
\* tags the item for the file name has a path field and nothing else, also
\* when the item it replaced had tags.
C7_TagsFieldIffNonEmpty ==
    WroteOk =>
        /\ Position(GlobalOf(cfg), ruleCall.filename) =
               IF ruleCall.index # 0 THEN ruleCall.index ELSE Len(GlobalOf(cfg))
        /\ IsTab(StoredItem)
        /\ DOMAIN StoredItem[2] =
               IF ruleCall.tags = <<>> THEN {"path"} ELSE {"path", "tags"}
        /\ ruleCall.tags # <<>> =>
               StoredItem[2]["tags"] =
                   TArr([i \in 1..Len(ruleCall.tags) |-> TStr(ruleCall.tags[i])])

\* a write with no tags has replaced an item of a hand-written rules.global,
\* all of whose items have a tags field
C7_Witness ==
    /\ WroteOk
    /\ ruleCall.tags = <<>>
    /\ ruleCall.index # 0
    /\ DOMAIN StoredItem[2] = {"path"}

\* the rule file of that name is in the rules directory
RuleFileExists(filename) == ruleDir /\ filename \in DOMAIN ruleFiles

\* config.toml is absent or can be read, and its text is blank or parses
ConfigParses(c) ==
    /\ c.file # "unreadable"
    /\ c.file = "present" => c.text.form # "invalid"

\* C8: delete_codex_rule(filename) fails with a not-found error and changes
\* neither the files nor config.toml when the rule file is absent; when the
\* file is there it removes the file, and with a config.toml it can read it
\* leaves rules.global without an item whose path has that file name; a
\* config.toml without a rules section, without a global array or without a
\* matching item does not make the delete fail.
C8_DeleteRule ==
    [][ruleCall'.op = "delete_codex_rule" =>
          LET filename == ruleCall'.filename IN
          IF ~RuleFileExists(filename)
          THEN /\ ruleCall'.result = "NotFound"
               /\ ruleFiles' = ruleFiles
               /\ cfg' = cfg
          ELSE /\ DOMAIN ruleFiles' = DOMAIN ruleFiles \ {filename}
               /\ \A n \in DOMAIN ruleFiles' : ruleFiles'[n] = ruleFiles[n]
               /\ cfg.file # "unreadable" =>
                     \A i \in 1..Len(GlobalOf(cfg')) :
                         ~EntryMatches(GlobalOf(cfg')[i], filename)
               /\ ConfigParses(cfg) => ruleCall'.result = "Ok"
               /\ ruleCall'.result = "Ok" => ConfigParses(cfg)]_vars

\* a delete has removed a.md and both of its items, and b.md is still listed
\* in rules.global
C8_Witness ==
    /\ ruleCall.op = "delete_codex_rule"
    /\ ruleCall.result = "Ok"
    /\ ruleCall.filename = RuleA
    /\ RuleA \notin DOMAIN ruleFiles
    /\ cfg.text.form = "pretty"
    /\ Len(GlobalOf(cfg)) = 1
    /\ EntryMatches(GlobalOf(cfg)[1], RuleB)

\* config.toml is there, is not blank and does not parse
Unparseable(c) == c.file = "present" /\ c.text.form = "invalid"

\* C9: when config.toml is not blank and does not parse, write_codex_rule and
\* delete_codex_rule return an error and leave config.toml as it was.
C9_ParseFailureKeepsConfig ==
    [][(/\ Unparseable(cfg)
        /\ ruleCall'.op \in {"write_codex_rule", "delete_codex_rule"}) =>
          /\ ruleCall'.result # "Ok"
          /\ cfg' = cfg]_vars

\* a write and a delete of a file that is there have met the parse error
C9_Witness ==
    /\ Unparseable(cfg)
    /\ ruleCall.op \in {"write_codex_rule", "delete_codex_rule"}
    /\ ruleCall.result = "ParseError"

\* the md files directly under the rules directory
RuleFileNames == { n \in DOMAIN ruleFiles : ruleDir /\ ExtensionOf(<<n>>) = "md" }

\* C10: list_codex_rules returns one record for each md file directly under
\* the rules directory and no other record, whatever config.toml holds: a file
\* without a matching item has no tags, an item without a file gives no record
\* and no error, and with a config.toml that cannot be read, does not parse or
\* has no rules.global every file is listed without tags.
C10_ListEveryRuleFile ==
    ruleCall.op = "list_codex_rules" =>
        LET listed == ruleCall.listed IN
        /\ ruleCall.result = "Ok"
        /\ Len(listed) = Cardinality(RuleFileNames)
        /\ { listed[i].name : i \in 1..Len(listed) } = RuleFileNames
        /\ \A i \in 1..Len(listed) :
              /\ listed[i].content = ruleFiles[listed[i].name]
              /\ listed[i].path = Join(RulesDir, listed[i].name)
              /\ (\A j \in 1..Len(GlobalOf(cfg)) :
                     ~EntryMatches(GlobalOf(cfg)[j], listed[i].name))
                     => listed[i].tags = <<>>
              /\ (~ConfigParses(cfg) \/ ~HasGlobal(cfg)) => listed[i].tags = <<>>

\* two rule files are listed although config.toml does not parse
C10_Witness ==
    /\ ruleCall.op = "list_codex_rules"
    /\ Len(ruleCall.listed) = 2
    /\ Unparseable(cfg)
    /\ NotesTxt \in DOMAIN ruleFiles

(***************************************************************************)
(* Claims about the scans and the search                                    *)
(***************************************************************************)
ListedClaude == scanCall.op = "list_claude_conversations"

ListedCodex == scanCall.op = "list_codex_conversations"

\* the directories a Claude scan lists: the root and its containers, the
\* hidden ones left out
ClaudeScanDirs ==
    {ClaudeRoot} \cup
    { d \in dirs : Len(d) = Len(ClaudeRoot) + 1 /\ IsPrefix(ClaudeRoot, d)
                   /\ ~StartsWithDot(FileNameOf(d)) }

\* the directories a Codex scan lists: the root, the years, months and days
CodexScanDirs ==
    { d \in dirs : IsPrefix(CodexRoot, d) /\ Len(d) <= Len(CodexRoot) + 3 }

\* the record files of the two trees: jsonl files in a container that is not
\* hidden, jsonl files in a day directory
ClaudeRecordFiles ==
    { f \in files : /\ Len(f) = Len(ClaudeRoot) + 2
                    /\ ParentOf(f) \in ClaudeScanDirs
                    /\ ExtensionOf(f) = "jsonl" }

CodexRecordFiles ==
    { f \in files : /\ Len(f) = Len(CodexRoot) + 4
                    /\ IsPrefix(CodexRoot, f)
                    /\ ExtensionOf(f) = "jsonl" }

\* every directory between the root and the file can be listed
ChainReadable(root, f) ==
    \A d \in dirs : IsProperAncestor(root, d) /\ IsPrefix(d, f) => d \notin unreadable

ReturnedPaths == { scanCall.records[i].file_path : i \in 1..Len(scanCall.records) }

\* the scan of root with record files R tolerates directories it cannot read
SkipsUnreadable(root, R) ==
    IF root \notin dirs THEN scanCall.result = "Ok"
    ELSE IF root \in unreadable THEN scanCall.result = "Err"
    ELSE /\ scanCall.result = "Ok"
         /\ ReturnedPaths = { f \in R : fileInfo[f].readable /\ ChainReadable(root, f) }

\* C11 as stated: a scan skips a project container or a year, month or day
\* directory that it cannot read and returns the records of every other
\* directory; it returns an error only when the root itself cannot be read.
C11_ScanSkipsUnreadableDirs ==
    /\ ListedClaude => SkipsUnreadable(ClaudeRoot, ClaudeRecordFiles)
    /\ ListedCodex => SkipsUnreadable(CodexRoot, CodexRecordFiles)

\* the first line of a Codex record file, or no line
FirstLineOf(f) ==
    IF Len(fileInfo[f].content) = 0 THEN NoneVal ELSE Some(fileInfo[f].content[1])

\* every Codex record file that can be read has its record in the result
CodexRecordsAllReturned ==
    \A f \in CodexRecordFiles : fileInfo[f].readable => f \in ReturnedPaths

\* the session id the claim gives for a first line; bare says what the line
\* {"type":"session_meta","payload":{"id":"S2"}} yields
ClaimedSessionId(first, bare) ==
    IF first = Some(MetaLine) THEN Some("S2")
    ELSE IF first = Some(BareMetaLine) THEN bare
    ELSE NoneVal

\* C12 as stated: the first line {"type":"session_meta","payload":{"id":"S2"}}
\* of a Codex record yields the session id S2; a first line of another type,
\* with a payload without a string id, or that is no JSON yields no session
\* id; in each case the scan returns the record.
C12_SessionIdOfBareLine ==
    (ListedCodex /\ scanCall.result = "Ok") =>
        /\ CodexRecordsAllReturned
        /\ \A i \in 1..Len(scanCall.records) :
              scanCall.records[i].session_id =
                  ClaimedSessionId(FirstLineOf(scanCall.records[i].file_path), Some("S2"))

\* C12 as amended: a first line that is a JSON object with a string timestamp,
\* the type session_meta and a payload with the string id S2 yields the
\* session id S2; the line {"type":"session_meta","payload":{"id":"S2"}}, which
\* has no timestamp, yields none, as does a first line of another type, with a
\* payload without a string id, or that is no JSON, and an empty file; in each
\* case the scan returns the record.
C12_SessionIdNeedsTimestamp ==
    (ListedCodex /\ scanCall.result = "Ok") =>
        /\ CodexRecordsAllReturned
        /\ \A i \in 1..Len(scanCall.records) :
              scanCall.records[i].session_id =
                  ClaimedSessionId(FirstLineOf(scanCall.records[i].file_path), NoneVal)

\* a scan has returned the record of a file whose first line is the bare
\* line, without a session id, and that of a file with the full line, with it
C12_Witness ==
    /\ ListedCodex
    /\ Len(scanCall.records) = 2
    /\ \E i, j \in 1..2 :
          /\ FirstLineOf(scanCall.records[i].file_path) = Some(BareMetaLine)
          /\ scanCall.records[i].session_id = NoneVal
          /\ FirstLineOf(scanCall.records[j].file_path) = Some(MetaLine)
          /\ scanCall.records[j].session_id = Some("S2")

\* the result of a list is in falling order of modified_at
Descending(records) ==
    \A i \in 1..(Len(records) - 1) : records[i].modified_at >= records[i + 1].modified_at

\* C13: in the sequence list_claude_conversations and list_codex_conversations
\* return, every record has a modified_at greater than or equal to that of
\* the record after it.
C13_ListDescending ==
    (ListedClaude \/ ListedCodex) => Descending(scanCall.records)

\* a list has returned two records with different times
C13_Witness ==
    /\ ListedClaude \/ ListedCodex
    /\ Len(scanCall.records) = 2
    /\ scanCall.records[1].modified_at > scanCall.records[2].modified_at

Searched == scanCall.op = "search_conversations"

\* the records a scan of a backend gives for the files it returns
ClaudeRecords ==
    { get_claude_conversation_meta(f, FileNameOf(ParentOf(f))) :
        f \in { g \in ClaudeRecordFiles : fileInfo[g].readable } }

CodexRecords ==
    { get_codex_conversation_meta(f) : f \in { g \in CodexRecordFiles : fileInfo[g].readable } }

\* the records of the backends a search with that filter scans
ScannedRecords(app_type) ==
    IF app_type = Some("claude") THEN ClaudeRecords
    ELSE IF app_type = Some("codex") THEN CodexRecords
    ELSE ClaudeRecords \cup CodexRecords

\* the lower-cased keyword is a substring of the lower-cased id, project name
\* or session id of the record; a field that is absent does not match
KeywordIn(r, keyword) ==
    LET k == to_lowercase(CharsOf(keyword)) IN
    \/ contains(to_lowercase(NameChars(r.id)), k)
    \/ r.project_name # NoneVal /\ contains(to_lowercase(NameChars(r.project_name[2])), k)
    \/ r.session_id # NoneVal /\ contains(to_lowercase(CharsOf(r.session_id[2])), k)

ReturnedRecords == { scanCall.records[i] : i \in 1..Len(scanCall.records) }

\* claude records come before codex records, and each of the two blocks is
\* in falling order of modified_at
InScanOrder(records) ==
    \A i, j \in 1..Len(records) :
        i < j =>
            /\ ~(records[i].app_type = "codex" /\ records[j].app_type = "claude")
            /\ records[i].app_type = records[j].app_type =>
                  records[i].modified_at >= records[j].modified_at

\* C14: search_conversations with an empty keyword returns every scanned
\* record; with a keyword it returns exactly the scanned records whose id,
\* project name or session id holds the keyword, case ignored, in their scan
\* order; a record without an optional field is not matched on it and causes
\* no error.
C14_SearchFilter ==
    (Searched /\ scanCall.result = "Ok") =>
        /\ ReturnedRecords =
               { r \in ScannedRecords(scanCall.app_type) :
                   scanCall.keyword = "" \/ KeywordIn(r, scanCall.keyword) }
        /\ Len(scanCall.records) = Cardinality(ReturnedRecords)
        /\ InScanOrder(scanCall.records)

\* a search for ABC has returned the record abc1 and left out a Codex record
\* that has neither a project name nor a session id
C14_Witness ==
    /\ Searched
    /\ scanCall.keyword = "ABC"
    /\ Len(scanCall.records) = 1
    /\ scanCall.records[1].id = <<"abc1">>
    /\ \E r \in CodexRecords : r.session_id = NoneVal

\* the Claude scan, the Codex scan can list each of its directories
ClaudeScanFails == ClaudeRoot \in dirs /\ \E d \in ClaudeScanDirs \cap dirs : d \in unreadable

CodexScanFails == CodexRoot \in dirs /\ \E d \in CodexScanDirs : d \in unreadable

\* C15: search_conversations with a filter that selects one backend scans
\* that backend only; without a filter it returns the Claude records in full
\* and then the Codex records, each block in falling order of modified_at and
\* the two blocks not merged, so that a Codex record newer than every Claude
\* record comes after all of them.
C15_SearchBackends ==
    Searched =>
        /\ scanCall.app_type = Some("claude") =>
              /\ scanCall.result = "Err" <=> ClaudeScanFails
              /\ \A r \in ReturnedRecords : r.app_type = "claude"
        /\ scanCall.app_type = Some("codex") =>
              /\ scanCall.result = "Err" <=> CodexScanFails
              /\ \A r \in ReturnedRecords : r.app_type = "codex"
        /\ scanCall.app_type = NoneVal =>
              /\ scanCall.result = "Err" <=> (ClaudeScanFails \/ CodexScanFails)
              /\ (scanCall.result = "Ok" /\ scanCall.keyword = "") =>
                    ReturnedRecords = ClaudeRecords \cup CodexRecords
        /\ InScanOrder(scanCall.records)

\* a search without a filter has returned an older Claude record before a
\* newer Codex record
C15_Witness ==
    /\ Searched
    /\ scanCall.app_type = NoneVal
    /\ Len(scanCall.records) = 2
    /\ scanCall.records[1].app_type = "claude"
    /\ scanCall.records[2].app_type = "codex"
    /\ scanCall.records[1].modified_at < scanCall.records[2].modified_at

\* the root is missing or has no entries
AbsentOrEmpty(root) == root \notin dirs \/ Entries(dirs, files, root) = {}

EmptyOk == scanCall.result = "Ok" /\ scanCall.records = <<>>

\* C16 as stated: a scan of a backend root that does not exist, or that
\* exists and has no entries, returns the empty sequence and never an error.
C16_EmptyRootNeverFails ==
    /\ (ListedClaude /\ AbsentOrEmpty(ClaudeRoot)) => EmptyOk
    /\ (ListedCodex /\ AbsentOrEmpty(CodexRoot)) => EmptyOk

\* C16 as amended: a scan of a backend root that does not exist, or that
\* exists, can be listed and has no entries, returns the empty sequence and
\* no error; a root that exists and cannot be listed gives an error, with or
\* without entries.
C16_EmptyReadableRoot ==
    /\ (ListedClaude /\ AbsentOrEmpty(ClaudeRoot)) =>
          IF ClaudeRoot \in unreadable THEN scanCall.result = "Err" ELSE EmptyOk
    /\ (ListedCodex /\ AbsentOrEmpty(CodexRoot)) =>
          IF CodexRoot \in unreadable THEN scanCall.result = "Err" ELSE EmptyOk

\* a scan of a missing Codex root has returned the empty sequence
C16_Witness ==
    /\ ListedCodex
    /\ CodexRoot \notin dirs
    /\ EmptyOk

\* two scans of the same backend, one right after the other, on a tree that
\* no call changes in between
ScannedTwice ==
    /\ scanCall.op \in {"list_claude_conversations", "list_codex_conversations"}
    /\ scanCall'.op = scanCall.op

\* C18 as stated: two scans of the same tree that meet the directory entries
\* in different orders return the same sequence of records, also when
\* several records have the same modified_at.
C18_SameSequence ==
    [][ScannedTwice =>
          /\ scanCall'.result = scanCall.result
          /\ scanCall'.records = scanCall.records]_vars

\* no two of the records have the same modified_at
DistinctTimes(records) ==
    \A i, j \in 1..Len(records) : i # j => records[i].modified_at # records[j].modified_at

\* What the stable sort does give: two scans of the same tree that meet the
\* directory entries in different orders return the same records, and in the
\* same sequence when no two of the records have the same modified_at.
C18_SameSequenceUpToTies ==
    [][ScannedTwice =>
          /\ scanCall'.result = scanCall.result
          /\ Len(scanCall'.records) = Len(scanCall.records)
          /\ { scanCall'.records[i] : i \in 1..Len(scanCall'.records) } = ReturnedRecords
          /\ DistinctTimes(scanCall.records) => scanCall'.records = scanCall.records]_vars

(***************************************************************************)
(* Claims about failures of the config step and about histories of calls   *)
(***************************************************************************)
\* config.toml parses and its key rules holds something else than a table
RulesNotTable(c) == Has(DocOf(c), "rules") /\ ~IsTab(DocOf(c)["rules"])

\* config.toml parses, rules is a table and its key global holds something
\* else than an array
GlobalNotArray(c) ==
    /\ Has(DocOf(c), "rules")
    /\ IsTab(DocOf(c)["rules"])
    /\ Has(DocOf(c)["rules"][2], "global")
    /\ ~IsArr(DocOf(c)["rules"][2]["global"])

\* C20: write_codex_rule and delete_codex_rule change the rule file before
\* the config and do not roll back. A write on a config.toml that does not
\* parse, or whose rules is not a table, or whose rules.global is not an
\* array, returns an error; after a write that returned an error config.toml
\* is as it was and the file holds the new content; after a delete of a file
\* that was there and that returned an error config.toml, and with it the
\* file's item, is as it was and the file is gone.
C20_NoRollback ==
    [][LET filename == ruleCall'.filename IN
       /\ ruleCall'.op = "write_codex_rule" =>
             /\ (Unparseable(cfg) \/ RulesNotTable(cfg) \/ GlobalNotArray(cfg)) =>
                   ruleCall'.result # "Ok"
             /\ ruleCall'.result # "Ok" =>
                   /\ cfg' = cfg
                   /\ ruleDir'
                   /\ filename \in DOMAIN ruleFiles'
                   /\ ruleFiles'[filename] = ruleCall'.content
       /\ (ruleCall'.op = "delete_codex_rule" /\ RuleFileExists(filename)) =>
             /\ Unparseable(cfg) => ruleCall'.result # "Ok"
             /\ ruleCall'.result # "Ok" =>
                   /\ cfg' = cfg
                   /\ filename \notin DOMAIN ruleFiles']_vars

\* a write of a.md has failed on a rules.global that is a string, and a.md
\* holds the content of that write
C20_Witness ==
    /\ ruleCall.op = "write_codex_rule"
    /\ ruleCall.result = "GlobalNotArray"
    /\ GlobalNotArray(cfg)
    /\ ruleCall.filename = RuleA
    /\ ruleFiles[RuleA] = "c1"

\* the file-name components of the paths in rules.global, item by item
GlobalNames(c) ==
    [i \in 1..Len(GlobalOf(c)) |-> FileNameOf(GlobalOf(c)[i][2]["path"][2])]

\* the files in the rules directory
FilesPresent == IF ruleDir THEN DOMAIN ruleFiles ELSE {}

\* C19: from an empty rules directory and a blank config.toml, after any
\* sequence of write_codex_rule and delete_codex_rule calls that run one
\* after the other, the file-name components of the paths in rules.global
\* are the names of the files in the rules directory, and no two items of
\* rules.global have the same file-name component. A call that does not
\* succeed here is a delete of a file that is not there, and changes nothing.
C19_FilesAndEntriesInSync ==
    /\ WellFormedGlobal(cfg)
    /\ { GlobalNames(cfg)[i] : i \in 1..Len(GlobalOf(cfg)) } = FilesPresent
    /\ \A i, j \in 1..Len(GlobalOf(cfg)) :
          GlobalNames(cfg)[i] = GlobalNames(cfg)[j] => i = j
    /\ ruleCall.result \in {"none", "Ok", "NotFound"}

\* b.md and a.md have been written, n.txt has been written and deleted: two
\* files and their two items remain
C19_Witness ==
    /\ ruleCall.op = "delete_codex_rule"
    /\ ruleCall.result = "Ok"
    /\ ruleCall.filename = NotesTxt
    /\ FilesPresent = {RuleA, RuleB}
    /\ GlobalNames(cfg) = <<RuleB, RuleA>>
    /\ ItemTags(GlobalOf(cfg)[2][2]) = <<"t2", "t1">>

\* both writers have returned success from calls for different filenames
BothWroteOk ==
    /\ DOMAIN writers = Writers
    /\ \A w \in Writers : writers[w].pc = "done" /\ writers[w].result = "Ok"
    /\ writers[1].filename # writers[2].filename

\* rules.global has an item for the file of writer w
HasEntryOf(w) ==
    \E i \in 1..Len(GlobalOf(cfg)) : EntryMatches(GlobalOf(cfg)[i], writers[w].filename)

\* C17: the read-modify-write of config.toml is not atomic. When two
\* write_codex_rule calls for different filenames have both returned success
\* and ran one after the other, both rule files are there and rules.global
\* has the item of each; when the calls overlapped each rule file is there
\* and rules.global has the item of at least one of them, and need not have
\* the other (the state C17_Witness).
C17_SerialWritesKeepBoth ==
    BothWroteOk =>
        /\ \A w \in Writers : RuleFileExists(writers[w].filename)
        /\ \E w \in Writers : HasEntryOf(w)
        /\ (\A w \in Writers : ~writers[w].overlapped) => \A w \in Writers : HasEntryOf(w)

\* both calls read config.toml before either wrote it: both returned success,
\* both rule files are there, and rules.global has the item of writer 2 only
C17_Witness ==
    /\ BothWroteOk
    /\ \A w \in Writers : writers[w].overlapped
    /\ \A w \in Writers : RuleFileExists(writers[w].filename)
    /\ HasEntryOf(2)
    /\ ~HasEntryOf(1)
    /\ Len(GlobalOf(cfg)) = 1

(***************************************************************************)
(* Claims about what delete_conversation leaves alone                       *)
(***************************************************************************)
\* a successful delete_conversation step
DeleteStepOk == convCall'.op = "delete_conversation" /\ convCall'.result = "Ok"

\* C21: a successful delete_conversation(p) removes exactly the file p and a
\* chain, maybe empty, of directories that are ancestors of p: no other file
\* is removed and none appears, every directory removed is an ancestor of p,
\* the directories removed are the directory of p and its ancestors up to
\* some level without a gap, and no directory removed holds an entry that is
\* still there.
C21_DeleteFrame ==
    [][DeleteStepOk =>
          LET path == convCall'.path
              removed == dirs \ dirs'
          IN /\ path \in files
             /\ files' = files \ {path}
             /\ dirs' \subseteq dirs
             /\ \A d \in removed : IsProperAncestor(d, path)
             /\ \A d \in removed :
                   d # ParentOf(path) =>
                       SubSeq(path, 1, Len(d) + 1) \in removed
             /\ \A x \in dirs' \cup files' :
                   HasParent(x) => ParentOf(x) \notin removed]_vars

\* a delete has removed the directory of the file and has kept the directory
\* above it, which still holds an entry, and another record file
C21_Witness ==
    /\ DeletedOk
    /\ ParentOf(convCall.path) \notin dirs
    /\ ParentOf(ParentOf(convCall.path)) \in dirs
    /\ Entries(dirs, files, ParentOf(ParentOf(convCall.path))) # {}
    /\ files # {}

====
